---- MODULE Spec2Model ----
(***************************************************************************)
(* Session store (AuthProvider, isInitialized revision) and access guard   *)
(* (AuthGuard) of spillrix-share-stream, as one state machine.             *)
(*                                                                         *)
(* One page lifetime is modelled: the store is constructed by Init and     *)
(* lives until the document is unloaded; a behaviour may stop at any point *)
(* after signOut has assigned window.location.href.                        *)
(* State updates made in one callback are batched into one step; the       *)
(* effects they schedule (AuthGuard's effect, AuthProvider's effect) run   *)
(* before the next event is handled.                                       *)
(***************************************************************************)
EXTENDS Integers, Sequences, FiniteSets, TLC

\* ------------------------------------------------------------------ bounds
MaxInFlight == 2      \* profile lookups in flight at the same time
MaxCalls == 1         \* signIn/signUp/signOut calls in flight at the same time

\* ------------------------------------------------------------- data model
NULL == [null |-> TRUE]

Undefined == "undefined"

BootstrapEmail == "linkpointtrivedi480@gmail.com"

\* supabase User objects: id, email, user_metadata.name, created_at
Users ==
  { [id |-> "u1", email |-> BootstrapEmail, name |-> "Rahul", created_at |-> 1],
    [id |-> "u2", email |-> "artist@example.com", name |-> Undefined, created_at |-> 2] }

UserIds == { u.id : u \in Users }

\* a Session carries its user
Sessions == { [user |-> u] : u \in Users }

Roles == {"admin", "artist", "inactive"}

Routes == {"/", "/auth", "/dashboard", "/admin", "/other"}

\* the row of public.profiles that handle_new_user inserted for u, with the
\* role an administrator may have changed since
ProfileRow(u, r) ==
  [id |-> u.id, email |-> u.email,
   name |-> IF u.name = Undefined THEN "" ELSE u.name,
   role |-> r, created_at |-> u.created_at]

\* variant: the bootstrap address is not recognised
DefaultRoleAlwaysArtist(u) == "artist"

\* fetchUserProfile, error branch: the synthesized profile
DefaultRole(u) == IF u.email = BootstrapEmail THEN "admin" ELSE "artist"

FallbackProfile(u) ==
  [id |-> u.id, email |-> u.email,
   name |-> IF u.name = Undefined \/ u.name = "" THEN "User" ELSE u.name,
   role |-> DefaultRole(u), created_at |-> u.created_at]

\* variant: every role but 'artist' counts as admin
IsAdminOfNotArtist(p) == p # NULL /\ p.role # "artist"

\* const isAdmin = profile?.role === 'admin'
IsAdminOf(p) == p # NULL /\ p.role = "admin"

\* outcomes of the awaited profile query
FetchOutcomes == { [kind |-> "row", role |-> r] : r \in Roles }
                   \cup { [kind |-> "error", role |-> "none"],
                          [kind |-> "throw", role |-> "none"] }

\* what fetchUserProfile stores in profile for each outcome
ProfileAfterFetch(u, o) ==
  IF o.kind = "row" THEN ProfileRow(u, o.role)
  ELSE IF o.kind = "error" THEN FallbackProfile(u)
  ELSE NULL

\* ---------------------------------------------------------- browser storage
\* storage keys are strings, written as sequences of characters:
\* 'sb-xyz-auth-token', 'supabase.auth.token', 'unrelated-key', 'app-sb-cache',
\* 'x.supabase.auth.k'
StoredKeys ==
  {
     << "s", "b", "-", "x", "y", "z", "-", "a", "u", "t", "h", "-", "t", "o", "k", "e", "n" >>,
     << "s", "u", "p", "a", "b", "a", "s", "e", ".", "a", "u", "t", "h", ".", "t", "o", "k", "e", "n" >>,
     << "u", "n", "r", "e", "l", "a", "t", "e", "d", "-", "k", "e", "y" >>,
     << "a", "p", "p", "-", "s", "b", "-", "c", "a", "c", "h", "e" >>,
     << "x", ".", "s", "u", "p", "a", "b", "a", "s", "e", ".", "a", "u", "t", "h", ".", "k" >> }

\* key.startsWith(prefix)
StartsWith(key, prefix) ==
  Len(key) >= Len(prefix) /\ SubSeq(key, 1, Len(prefix)) = prefix

\* key.includes(part)
Includes(key, part) ==
  \E i \in 1..(Len(key) - Len(part) + 1) : SubSeq(key, i, i + Len(part) - 1) = part

\* variant: the prefix is looked for anywhere in the key
IsAuthKeyAnywhere(key) ==
  \/ Includes(key, << "s", "u", "p", "a", "b", "a", "s", "e", ".", "a", "u", "t", "h", "." >>)
  \/ Includes(key, << "s", "b", "-" >>)

\* key.startsWith('supabase.auth.') || key.includes('sb-')
IsAuthKey(key) ==
  \/ StartsWith(key, << "s", "u", "p", "a", "b", "a", "s", "e", ".", "a", "u", "t", "h", "." >>)
  \/ Includes(key, << "s", "b", "-" >>)

\* a storage area maps its keys to their values
StoredItems == [k \in StoredKeys |-> << "v", ":" >> \o k]

\* cleanupAuthState before its await: what is left of a storage area after
\* removeItem(key) for every key that passes the test
CleanedStorage(items) ==
  [k \in { x \in DOMAIN items : ~IsAuthKey(x) } |-> items[k]]

\* the keys the loop removes from a storage area
RemovedKeys(items) == { k \in DOMAIN items : IsAuthKey(k) }

\* variant: signIn cleans up first, as signUp does
StorageOnSignInCleaned(items) == CleanedStorage(items)

\* signIn does not call cleanupAuthState: the storage area stays as it is
StorageOnSignIn(items) == items

\* ------------------------------------------------------------ access guard
NoState == "none"

NavCall(to, from) == [to |-> to, replace |-> TRUE, from |-> from]

\* variant: the admin check comes before the authentication check
GuardNavigateAdminFirst(init, usr, prof, path, reqAuth, reqAdmin) ==
  IF ~init THEN <<>>
  ELSE IF reqAdmin /\ (usr = NULL \/ ~IsAdminOf(prof)) THEN << NavCall("/", NoState) >>
  ELSE IF reqAuth /\ usr = NULL THEN << NavCall("/auth", path) >>
  ELSE IF usr # NULL /\ prof # NULL /\ (path = "/auth" \/ path = "/")
       THEN IF IsAdminOf(prof) THEN << NavCall("/admin", NoState) >>
            ELSE << NavCall("/dashboard", NoState) >>
  ELSE <<>>

\* variant: the effect does not wait for isInitialized
GuardNavigateNoWait(init, usr, prof, path, reqAuth, reqAdmin) ==
  IF reqAuth /\ usr = NULL THEN << NavCall("/auth", path) >>
  ELSE IF reqAdmin /\ (usr = NULL \/ ~IsAdminOf(prof)) THEN << NavCall("/", NoState) >>
  ELSE IF usr # NULL /\ prof # NULL /\ (path = "/auth" \/ path = "/")
       THEN IF IsAdminOf(prof) THEN << NavCall("/admin", NoState) >>
            ELSE << NavCall("/dashboard", NoState) >>
  ELSE <<>>

\* variant: the redirect away from the public root is missing
GuardNavigateNoRootRule(init, usr, prof, path, reqAuth, reqAdmin) ==
  IF ~init THEN <<>>
  ELSE IF reqAuth /\ usr = NULL THEN << NavCall("/auth", path) >>
  ELSE IF reqAdmin /\ (usr = NULL \/ ~IsAdminOf(prof)) THEN << NavCall("/", NoState) >>
  ELSE IF usr # NULL /\ prof # NULL /\ path = "/auth"
       THEN IF IsAdminOf(prof) THEN << NavCall("/admin", NoState) >>
            ELSE << NavCall("/dashboard", NoState) >>
  ELSE <<>>

\* variant: the two dashboards are exchanged
GuardNavigateRolesSwapped(init, usr, prof, path, reqAuth, reqAdmin) ==
  IF ~init THEN <<>>
  ELSE IF reqAuth /\ usr = NULL THEN << NavCall("/auth", path) >>
  ELSE IF reqAdmin /\ (usr = NULL \/ ~IsAdminOf(prof)) THEN << NavCall("/", NoState) >>
  ELSE IF usr # NULL /\ prof # NULL /\ (path = "/auth" \/ path = "/")
       THEN IF IsAdminOf(prof) THEN << NavCall("/dashboard", NoState) >>
            ELSE << NavCall("/admin", NoState) >>
  ELSE <<>>

\* AuthGuard's effect: the navigate calls of one evaluation, in order
GuardNavigate(init, usr, prof, path, reqAuth, reqAdmin) ==
  IF ~init THEN <<>>
  ELSE IF reqAuth /\ usr = NULL THEN << NavCall("/auth", path) >>
  ELSE IF reqAdmin /\ (usr = NULL \/ ~IsAdminOf(prof)) THEN << NavCall("/", NoState) >>
  ELSE IF usr # NULL /\ prof # NULL /\ path = "/auth"
       THEN IF IsAdminOf(prof) THEN << NavCall("/admin", NoState) >>
            ELSE << NavCall("/dashboard", NoState) >>
  ELSE IF usr # NULL /\ prof # NULL /\ path = "/"
       THEN IF IsAdminOf(prof) THEN << NavCall("/admin", NoState) >>
            ELSE << NavCall("/dashboard", NoState) >>
  ELSE <<>>

\* variant: the placeholder is shown only while loading
GuardRenderLoadingOnly(ld, init) == IF ld THEN "placeholder" ELSE "children"

\* AuthGuard's render output
GuardRender(ld, init) == IF ld \/ ~init THEN "placeholder" ELSE "children"

\* the AuthGuard props of the page mounted at each route
PageGuard(path) ==
  IF path = "/admin" THEN [requireAuth |-> TRUE, requireAdmin |-> TRUE]
  ELSE IF path = "/dashboard" THEN [requireAuth |-> TRUE, requireAdmin |-> FALSE]
  ELSE [requireAuth |-> FALSE, requireAdmin |-> FALSE]

\* the longest chain of redirects that is followed
ChainFuel == 4

\* the number of navigate calls AuthGuard makes in a row for an unchanging
\* store, starting on the page at path, each navigation mounting the page of
\* its target (followed for at most fuel + 1 navigations)
RECURSIVE RedirectHops(_, _, _, _, _)
RedirectHops(init, usr, prof, path, fuel) ==
  LET made == GuardNavigate(init, usr, prof, path, PageGuard(path).requireAuth,
                            PageGuard(path).requireAdmin)
  IN IF made = <<>> THEN 0
     ELSE IF fuel = 0 THEN 1
     ELSE 1 + RedirectHops(init, usr, prof, made[Len(made)].to, fuel - 1)

\* ------------------------------------------------------------------- state
VARIABLES
  session, user, profile, loading, isInitialized,   \* AuthProvider state
  subInit,        \* isInitialized as captured by the subscribed callback
  fetches,        \* profile lookups in flight, per user
  signInCalls,    \* signIn calls awaiting signInWithPassword
  signUpCleaning, \* signUp calls awaiting cleanupAuthState
  signUpCalls,    \* signUp calls awaiting supabase.auth.signUp
  signOutCalls,   \* signOut calls awaiting cleanupAuthState
  localStorage, sessionStorage,   \* the two storage areas: key -> value
  href,           \* window.location.href assigned by the step just taken, or NoState
  route, requireAuth, requireAdmin,   \* location.pathname and the guard's props
  guardDirty,     \* AuthGuard's effect is scheduled
  nav,            \* navigate calls made by the step just taken
  view,           \* what AuthGuard rendered last
  toasts,         \* the toast shown by the step just taken, or NoToast
  ret,            \* what the operation that returned in the step just taken returned
  lastOp,         \* the step just taken: [op, arg]; for "guard", arg is the location
                  \* and props it ran with; for "signOut", the step before the call
                  \* (prev) and what the cleanup did; for "signOutReturn", the step
                  \* before the call if no other step came between call and return
                  \* (prev) and how the global sign-out ended (revoke); for the
                  \* steps of signUp, the cleanup of the call while it is traced
  notified,       \* a session-change notification has been received
  subscribed,     \* a callback is registered with onAuthStateChange
  getSession,     \* the one-time getSession query: "none", "pending", "done"
  timers,         \* setTimeout callbacks scheduled and not yet run, per user
  mountPc,        \* statements of the mount effect that have run
  db,             \* the tracks table: a row per track id
  tracks,         \* AdminDashboard: the loaded active list, [id, status] per row
  deletedTracks,  \* AdminDashboard: ids of the loaded recycle-bin list
  selectedTracks, \* AdminDashboard: ids selected for a bulk update
  statusFilter, searchTerm,   \* AdminDashboard: the two filters
  refreshing      \* AdminDashboard: list queries in flight ("tracks", "deleted")

store == <<session, user, profile, loading, isInitialized>>
calls == <<signInCalls, signUpCleaning, signUpCalls, signOutCalls>>
guard == <<route, requireAuth, requireAdmin>>
storage == <<localStorage, sessionStorage>>
mounting == <<subscribed, getSession, timers, mountPc>>
dashboard == <<db, tracks, deletedTracks, selectedTracks, statusFilter,
               searchTerm, refreshing>>
vars == <<session, user, profile, loading, isInitialized, subInit, fetches,
          signInCalls, signUpCleaning, signUpCalls, signOutCalls,
          localStorage, sessionStorage, href,
          route, requireAuth, requireAdmin, guardDirty, nav, view, toasts, ret,
          lastOp, notified, subscribed, getSession, timers, mountPc,
          db, tracks, deletedTracks, selectedTracks, statusFilter, searchTerm,
          refreshing>>

Op(name, arg) == [op |-> name, arg |-> arg]

\* the arg of a step that has nothing to record
NoArg == [none |-> TRUE]

\* toast({ title, variant }); a toast without variant is a default one
Toast(title, variant) == [title |-> title, variant |-> variant]

NoToast == Toast(NoState, NoState)

\* what cleanupAuthState did on behalf of an operation, up to its await: the
\* keys it removed, the session the store held when it asked for the global
\* sign-out; traced is FALSE once another step has come between
CleanupDone(local, sess, storeSession) ==
  [removed |-> RemovedKeys(local) \cup RemovedKeys(sess),
   signedOut |-> storeSession, traced |-> TRUE]

Untraced == [removed |-> {}, signedOut |-> NULL, traced |-> FALSE]

InFlight == fetches["u1"] + fetches["u2"]

CallsInFlight == signInCalls + signUpCleaning + signUpCalls + signOutCalls

\* ------------------------------------------------- AdminDashboard: data
TrackIds == {"t1", "t2"}

TrackStatuses == {"pending", "approved", "rejected"}

\* the columns of a track that never change: title, genre, and the name of
\* the joined artist profile (NULL: no artist row joined)
TrackInfo ==
  [i \in TrackIds |->
     IF i = "t1" THEN [title |-> << "A", "b" >>, genre |-> << "p", "o", "p" >>,
                       artist |-> << "R", "a" >>]
     ELSE [title |-> << "c" >>, genre |-> << "p", "o", "p" >>, artist |-> NULL]]

\* a deleted_at timestamp and a deleted_by user id, as column values
At(when) == [at |-> when]

By(id) == [by |-> id]

\* a row of the tracks table; exists is FALSE once the row has been deleted
TrackRow(st, at, by) ==
  [exists |-> TRUE, status |-> st, deleted_at |-> at, deleted_by |-> by]

NoRow == [exists |-> FALSE, status |-> "pending", deleted_at |-> NULL,
          deleted_by |-> NULL]

\* String.prototype.toLowerCase on the letters that occur
ToLowerCase(str) ==
  [k \in 1..Len(str) |-> IF str[k] = "A" THEN "a"
                          ELSE IF str[k] = "R" THEN "r" ELSE str[k]]

\* the dashboard's state while no AdminDashboard is mounted
DashboardUnmounted ==
  /\ db = [i \in TrackIds |-> TrackRow("pending", NULL, NULL)]
  /\ tracks = {} /\ deletedTracks = {} /\ selectedTracks = {}
  /\ statusFilter = "all" /\ searchTerm = <<>>
  /\ refreshing = {}

\* no effect is waiting to run: the next event can be handled
Idle == ~guardDirty /\ subInit = isInitialized

\* ------------------------------------------------------------------- Init
\* useState initial values, first render, effects scheduled by the mount; the
\* provider's effect has subscribed (this revision issues no getSession)
Init ==
  /\ session = NULL /\ user = NULL /\ profile = NULL
  /\ loading = FALSE /\ isInitialized = FALSE
  /\ subInit = FALSE
  /\ fetches = [i \in UserIds |-> 0]
  /\ signInCalls = 0 /\ signUpCleaning = 0 /\ signUpCalls = 0 /\ signOutCalls = 0
  /\ localStorage = StoredItems /\ sessionStorage = StoredItems
  /\ href = NoState
  /\ route \in Routes
  /\ requireAuth = PageGuard(route).requireAuth
  /\ requireAdmin = PageGuard(route).requireAdmin
  /\ guardDirty = TRUE
  /\ nav = <<>>
  /\ view = GuardRender(FALSE, FALSE)
  /\ toasts = NoToast
  /\ ret = NoState
  /\ lastOp = Op("mount", NoArg)
  /\ notified = FALSE
  /\ subscribed = TRUE /\ getSession = "none"
  /\ timers = [i \in UserIds |-> 0]
  /\ mountPc = 1
  /\ DashboardUnmounted

UserById(i) == CHOOSE u \in Users : u.id = i

\* const currentUser = session?.user ?? null
UserOfSession(s) == IF s = NULL THEN NULL ELSE s.user

\* variant: the profile is kept when the session is gone
ProfileOnNotifyKept(usr, prof) == prof

\* the callback's else branch: setProfile(null) when there is no user
ProfileOnNotify(usr, prof) == IF usr = NULL THEN NULL ELSE prof

\* variant: the flag is toggled instead of set
InitializedOnNotifyToggled(captured, current) == ~captured

\* if (!isInitialized) setIsInitialized(true), isInitialized being the value
\* the callback captured when it was subscribed
InitializedOnNotify(captured, current) == IF ~captured THEN TRUE ELSE current

\* variant: signOut leaves the profile in place
ClearedBySignOutKeepsProfile(usr, sess, prof) ==
  [user |-> NULL, session |-> NULL, profile |-> prof]

\* variant: signOut leaves the session in place
ClearedBySignOutKeepsSession(usr, sess, prof) ==
  [user |-> NULL, session |-> sess, profile |-> NULL]

\* signOut: setUser(null); setSession(null); setProfile(null)
ClearedBySignOut(usr, sess, prof) == [user |-> NULL, session |-> NULL, profile |-> NULL]

\* what a step that neither navigates, toasts nor returns leaves behind
Quiet == nav' = <<>> /\ toasts' = NoToast /\ ret' = NoState /\ href' = NoState

\* variant: an exception thrown by the global sign-out leaves cleanupAuthState
CleanupResolvesUnlessThrown(o) == o # "throw"

\* cleanupAuthState's inner try/catch around supabase.auth.signOut: whatever
\* the global sign-out did (o), cleanupAuthState resolves
CleanupResolves(o) == TRUE

\* variant: signIn reports success whatever the provider answered
SignInResultSwallowed(o) == IF o = "throw" THEN "Thrown" ELSE "null"

\* variant: signIn has no catch block
SignInResultUncaught(o) ==
  IF o = "error" THEN "ProviderError" ELSE IF o = "ok" THEN "null" ELSE "Rejected"

\* signIn: what it returns ("null": { error: null }; "ProviderError":
\* { error } with the provider's error; "Thrown": { error } with the exception
\* its catch block caught; "Rejected" would be an exception reaching the caller)
SignInResult(o) ==
  IF o = "error" THEN "ProviderError" ELSE IF o = "ok" THEN "null" ELSE "Thrown"

\* signIn: the toast it shows
SignInToast(o) ==
  IF o = "error" THEN Toast("Sign in failed", "destructive")
  ELSE IF o = "ok" THEN Toast("Welcome back!", "default")
  ELSE NoToast

\* variant: the confirmation e-mail error is returned like any other
SignUpResultStrict(o) ==
  IF o \in {"error", "emailError"} THEN "ProviderError"
  ELSE IF o = "throw" THEN "Thrown" ELSE "null"

\* signUp: what it returns
SignUpResult(o) ==
  IF o = "error" THEN "ProviderError" ELSE IF o = "throw" THEN "Thrown" ELSE "null"

\* signUp: the toast it shows
SignUpToast(o) ==
  IF o = "emailError" THEN Toast("Account created with email issue", "default")
  ELSE IF o = "error" THEN Toast("Sign up failed", "destructive")
  ELSE IF o = "ok" THEN Toast("Account created!", "default")
  ELSE NoToast

\* ------------------------------------------------- AuthProvider: listener
\* the onAuthStateChange callback, called with session s (NULL: no session);
\* for a signed-in session it runs fetchUserProfile up to its await
Notify(s) ==
  /\ Idle
  /\ s # NULL => InFlight < MaxInFlight
  /\ session' = s
  /\ user' = UserOfSession(s)
  /\ profile' = ProfileOnNotify(user', profile)
  /\ IF user' # NULL
     THEN /\ loading' = TRUE
          /\ fetches' = [fetches EXCEPT ![user'.id] = @ + 1]
     ELSE UNCHANGED <<loading, fetches>>
  /\ isInitialized' = InitializedOnNotify(subInit, isInitialized)
  /\ guardDirty' = (s # NULL \/ user # NULL \/ profile # NULL \/ ~isInitialized)
  /\ view' = GuardRender(loading', isInitialized')
  /\ lastOp' = Op("notify", s)
  /\ notified' = TRUE
  /\ Quiet
  /\ UNCHANGED <<subInit, calls, guard>>
  /\ UNCHANGED storage
  /\ UNCHANGED mounting
  /\ UNCHANGED dashboard

\* fetchUserProfile after its await: the lookup for user i settles with o
FetchSettle(i, o) ==
  /\ Idle
  /\ fetches[i] > 0
  /\ fetches' = [fetches EXCEPT ![i] = @ - 1]
  /\ profile' = ProfileAfterFetch(UserById(i), o)
  /\ loading' = FALSE
  /\ guardDirty' = (profile' # profile)
  /\ view' = GuardRender(loading', isInitialized)
  /\ lastOp' = Op("settle", [u |-> UserById(i), outcome |-> o])
  /\ Quiet
  /\ UNCHANGED <<session, user, isInitialized, subInit, calls, guard,
                 notified>>
  /\ UNCHANGED storage
  /\ UNCHANGED mounting
  /\ UNCHANGED dashboard

\* AuthProvider's effect runs again when isInitialized has changed:
\* unsubscribe, subscribe a callback that captures the new value
AuthEffect ==
  /\ ~guardDirty
  /\ subInit # isInitialized
  /\ subInit' = isInitialized
  /\ lastOp' = Op("subscribe", NoArg)
  /\ Quiet
  /\ UNCHANGED <<store, fetches, calls, guard, guardDirty, view,
                 notified>>
  /\ UNCHANGED storage
  /\ UNCHANGED mounting
  /\ UNCHANGED dashboard

\* ------------------------------------------------ AuthProvider: operations
SignInCall ==
  /\ Idle
  /\ CallsInFlight < MaxCalls
  /\ signInCalls' = signInCalls + 1
  /\ lastOp' = Op("signIn", NoArg)
  /\ Quiet
  /\ UNCHANGED <<store, subInit, fetches, signUpCleaning, signUpCalls,
                 signOutCalls, guard, guardDirty, view, notified>>
  /\ localStorage' = StorageOnSignIn(localStorage)
  /\ sessionStorage' = StorageOnSignIn(sessionStorage)
  /\ UNCHANGED mounting
  /\ UNCHANGED dashboard

SignInOutcomes == {"ok", "error", "throw"}

\* signIn after its await on signInWithPassword
SignInReturn(o) ==
  /\ Idle
  /\ signInCalls > 0
  /\ signInCalls' = signInCalls - 1
  /\ toasts' = SignInToast(o)
  /\ ret' = SignInResult(o)
  /\ nav' = <<>> /\ href' = NoState
  /\ lastOp' = Op("signInReturn", [outcome |-> o])
  /\ UNCHANGED <<store, subInit, fetches, signUpCleaning, signUpCalls,
                 signOutCalls, guard, guardDirty, view, notified>>
  /\ UNCHANGED storage
  /\ UNCHANGED mounting
  /\ UNCHANGED dashboard

\* signUp up to the await inside cleanupAuthState
SignUpCall ==
  /\ Idle
  /\ CallsInFlight < MaxCalls
  /\ signUpCleaning' = signUpCleaning + 1
  /\ lastOp' = Op("signUp",
                   IF signUpCleaning + signUpCalls = 0
                   THEN CleanupDone(localStorage, sessionStorage, session)
                   ELSE Untraced)
  /\ Quiet
  /\ UNCHANGED <<store, subInit, fetches, signInCalls, signUpCalls,
                 signOutCalls, guard, guardDirty, view, notified>>
  /\ localStorage' = CleanedStorage(localStorage)
  /\ sessionStorage' = CleanedStorage(sessionStorage)
  /\ UNCHANGED mounting
  /\ UNCHANGED dashboard

\* supabase.auth.signOut({ scope: 'global' }) resolves without error, resolves
\* with an error, or throws
RevokeOutcomes == {"ok", "error", "throw"}

\* signUp resumes after cleanupAuthState (whose global sign-out ended with o)
\* and calls supabase.auth.signUp; were cleanupAuthState to reject, signUp's
\* catch block would return the exception
SignUpCleaned(o) ==
  /\ Idle
  /\ signUpCleaning > 0
  /\ signUpCleaning' = signUpCleaning - 1
  /\ LET done == IF lastOp.op = "signUp" THEN lastOp.arg ELSE Untraced
     IN IF CleanupResolves(o)
        THEN /\ signUpCalls' = signUpCalls + 1
             /\ lastOp' = Op("signUpCleaned", [revoke |-> o, cleanup |-> done])
             /\ ret' = NoState
        ELSE /\ signUpCalls' = signUpCalls
             /\ lastOp' = Op("signUpReturn", [outcome |-> "throw", cleanup |-> done])
             /\ ret' = SignUpResult("throw")
  /\ nav' = <<>> /\ toasts' = NoToast /\ href' = NoState
  /\ UNCHANGED <<store, subInit, fetches, signInCalls, signOutCalls,
                 guard, guardDirty, view, notified>>
  /\ UNCHANGED storage
  /\ UNCHANGED mounting
  /\ UNCHANGED dashboard

SignUpOutcomes == {"ok", "emailError", "error", "throw"}

\* signUp after its await on supabase.auth.signUp
SignUpReturn(o) ==
  /\ Idle
  /\ signUpCalls > 0
  /\ signUpCalls' = signUpCalls - 1
  /\ toasts' = SignUpToast(o)
  /\ ret' = SignUpResult(o)
  /\ nav' = <<>> /\ href' = NoState
  /\ lastOp' = Op("signUpReturn",
                   [outcome |-> o,
                    cleanup |-> IF lastOp.op = "signUpCleaned"
                                THEN lastOp.arg.cleanup ELSE Untraced])
  /\ UNCHANGED <<store, subInit, fetches, signInCalls, signUpCleaning,
                 signOutCalls, guard, guardDirty, view, notified>>
  /\ UNCHANGED storage
  /\ UNCHANGED mounting
  /\ UNCHANGED dashboard

\* signOut up to the await inside cleanupAuthState
SignOutCall ==
  /\ Idle
  /\ CallsInFlight < MaxCalls
  /\ signOutCalls' = signOutCalls + 1
  /\ lastOp' = Op("signOut",
                   [prev |-> lastOp.op,
                    cleanup |-> CleanupDone(localStorage, sessionStorage, session)])
  /\ Quiet
  /\ UNCHANGED <<store, subInit, fetches, signInCalls, signUpCleaning,
                 signUpCalls, guard, guardDirty, view, notified>>
  /\ localStorage' = CleanedStorage(localStorage)
  /\ sessionStorage' = CleanedStorage(sessionStorage)
  /\ UNCHANGED mounting
  /\ UNCHANGED dashboard

\* signOut resumes after cleanupAuthState (whose global sign-out ended with o);
\* were cleanupAuthState to reject, signOut's catch block would only log
SignOutResume(o) ==
  /\ Idle
  /\ signOutCalls > 0
  /\ signOutCalls' = signOutCalls - 1
  /\ IF CleanupResolves(o)
     THEN /\ LET cleared == ClearedBySignOut(user, session, profile)
             IN /\ user' = cleared.user
                /\ session' = cleared.session
                /\ profile' = cleared.profile
          /\ toasts' = Toast("Signed out", "default")
          /\ href' = "/"
     ELSE /\ UNCHANGED <<user, session, profile>>
          /\ toasts' = NoToast
          /\ href' = NoState
  /\ ret' = "void"
  /\ nav' = <<>>
  /\ guardDirty' = (user' # user \/ profile' # profile)
  /\ lastOp' = Op("signOutReturn",
                   [prev |-> IF lastOp.op = "signOut" THEN lastOp.arg.prev
                             ELSE "interleaved",
                    revoke |-> o])
  /\ UNCHANGED <<loading, isInitialized, subInit, fetches, signInCalls,
                 signUpCleaning, signUpCalls, guard, view, notified>>
  /\ UNCHANGED storage
  /\ UNCHANGED mounting
  /\ UNCHANGED dashboard

\* ------------------------------------------------------------- AuthGuard
\* a page wrapped in <AuthGuard requireAuth=ra requireAdmin=rd> is opened at p
Visit(p, ra, rd) ==
  /\ Idle
  /\ <<p, ra, rd>> # <<route, requireAuth, requireAdmin>>
  /\ route' = p /\ requireAuth' = ra /\ requireAdmin' = rd
  /\ guardDirty' = TRUE
  /\ lastOp' = Op("visit", NoArg)
  /\ Quiet
  /\ UNCHANGED <<store, subInit, fetches, calls, view, notified>>
  /\ UNCHANGED storage
  /\ UNCHANGED mounting
  /\ UNCHANGED dashboard

\* AuthGuard's effect; a navigate call mounts the page of the target route
GuardEffect ==
  /\ guardDirty
  /\ LET made == GuardNavigate(isInitialized, user, profile, route,
                               requireAuth, requireAdmin)
     IN /\ nav' = made
        /\ IF made # <<>>
           THEN /\ route' = made[Len(made)].to
                /\ requireAuth' = PageGuard(route').requireAuth
                /\ requireAdmin' = PageGuard(route').requireAdmin
                /\ guardDirty' = TRUE
           ELSE /\ UNCHANGED guard
                /\ guardDirty' = FALSE
  /\ toasts' = NoToast /\ ret' = NoState /\ href' = NoState
  /\ lastOp' = Op("guard", [path |-> route, requireAuth |-> requireAuth,
                              requireAdmin |-> requireAdmin])
  /\ UNCHANGED <<store, subInit, fetches, calls, view, notified>>
  /\ UNCHANGED storage
  /\ UNCHANGED mounting
  /\ UNCHANGED dashboard

\* ------------------------------------------------------------------ Spec
Next ==
  \/ \E s \in Sessions \cup {NULL} : Notify(s)
  \/ \E i \in UserIds, o \in FetchOutcomes : FetchSettle(i, o)
  \/ AuthEffect
  \/ SignInCall
  \/ \E o \in SignInOutcomes : SignInReturn(o)
  \/ SignUpCall
  \/ \E o \in RevokeOutcomes : SignUpCleaned(o)
  \/ \E o \in SignUpOutcomes : SignUpReturn(o)
  \/ SignOutCall
  \/ \E o \in RevokeOutcomes : SignOutResume(o)
  \/ \E p \in Routes, ra \in BOOLEAN, rd \in BOOLEAN : Visit(p, ra, rd)
  \/ GuardEffect

Spec == Init /\ [][Next]_vars

\* ------------------------------------------------------------ properties

\* C1: isInitialized is false until the first session-change notification is
\* received, true from that notification on, and never goes back to false,
\* whatever signIn/signUp/signOut calls and profile lookups are interleaved.
C1_InitializedMonotone ==
  /\ [](isInitialized <=> notified)
  /\ [][isInitialized => isInitialized']_vars

\* a notification is handled by a callback that captured isInitialized = TRUE
C1_Witness == lastOp.op = "notify" /\ subInit /\ isInitialized

\* C2: whenever user is non-null and no profile lookup is in flight any more
\* (it returned a row, returned an error, or threw), profile is non-null.
C2_ProfileNonNullWhenSettled ==
  (user # NULL /\ InFlight = 0) => profile # NULL

\* C3: a notification without session leaves session, user and profile null
\* when the callback returns, and starts no profile lookup in that step.
C3_NoSessionClears ==
  /\ []((lastOp.op = "notify" /\ lastOp.arg = NULL)
          => (session = NULL /\ user = NULL /\ profile = NULL))
  /\ [][(lastOp'.op = "notify" /\ lastOp'.arg = NULL)
          => (fetches' = fetches /\ loading' = loading)]_vars

\* a no-session notification has just been handled while a lookup for the
\* previous user is still in flight
C3_Witness == lastOp.op = "notify" /\ lastOp.arg = NULL /\ InFlight > 0

\* C4: a guard with requireAuth and requireAdmin, evaluated with
\* isInitialized true and no user, navigates to '/auth' with the current
\* location as state.from, and not to '/', whatever the route, profile and
\* loading are.
C4_AuthBeforeAdmin ==
  (/\ lastOp.op = "guard"
   /\ lastOp.arg.requireAuth /\ lastOp.arg.requireAdmin
   /\ isInitialized /\ user = NULL)
  => /\ nav = << [to |-> "/auth", replace |-> TRUE, from |-> lastOp.arg.path] >>
     /\ \A k \in 1..Len(nav) : nav[k].to # "/"

\* such a guard has been evaluated on the admin page while a late lookup had
\* left an admin profile behind
C4_Witness ==
  /\ lastOp.op = "guard"
  /\ lastOp.arg.requireAuth /\ lastOp.arg.requireAdmin
  /\ isInitialized /\ user = NULL /\ profile # NULL

\* C5: while isInitialized is false no navigate call is made, whatever the
\* guard's props, the route and the store state.
C5_NoNavigationBeforeInit == ~isInitialized => nav = <<>>

\* a guard requiring authentication has been evaluated before initialisation
C5_Witness ==
  /\ lastOp.op = "guard" /\ ~isInitialized
  /\ lastOp.arg.requireAuth /\ user = NULL

\* C6: the guard shows the loading placeholder exactly when loading is true
\* or isInitialized is false; so nothing guarded is rendered before the
\* first notification has been received.
C6_PlaceholderUntilReady ==
  /\ (view = "placeholder") <=> (loading \/ ~isInitialized)
  /\ view \in {"placeholder", "children"}
  /\ ~notified => view = "placeholder"

\* a guarded page has been opened before the first notification
C6_Witness == lastOp.op = "visit" /\ ~notified /\ ~loading

\* the rule of the guard's table that matches first (5: render children)
C7_Rule(usr, prof, path, reqAuth, reqAdmin) ==
  CASE reqAuth /\ usr = NULL -> 1
    [] ~(reqAuth /\ usr = NULL) /\ reqAdmin /\ (usr = NULL \/ ~IsAdminOf(prof)) -> 2
    [] ~(reqAuth /\ usr = NULL) /\ ~(reqAdmin /\ (usr = NULL \/ ~IsAdminOf(prof)))
         /\ usr # NULL /\ prof # NULL /\ path = "/auth" -> 3
    [] ~(reqAuth /\ usr = NULL) /\ ~(reqAdmin /\ (usr = NULL \/ ~IsAdminOf(prof)))
         /\ usr # NULL /\ prof # NULL /\ path = "/" -> 4
    [] OTHER -> 5

C7_Target(rule, prof) ==
  CASE rule = 1 -> "/auth"
    [] rule = 2 -> "/"
    [] rule \in {3, 4} -> IF IsAdminOf(prof) THEN "/admin" ELSE "/dashboard"

\* C7: with isInitialized true, one evaluation of the guard makes exactly the
\* navigate call of the first matching rule of the table (none for rule 5),
\* at most one call, always with replace.
C7_FirstMatchingRule ==
  (lastOp.op = "guard" /\ isInitialized) =>
    LET a == lastOp.arg
        rule == C7_Rule(user, profile, a.path, a.requireAuth, a.requireAdmin)
    IN /\ Len(nav) <= 1
       /\ \A k \in 1..Len(nav) : nav[k].replace
       /\ (rule = 5) <=> (nav = <<>>)
       /\ rule # 5 => (Len(nav) = 1 /\ nav[1].to = C7_Target(rule, profile))

\* rule 4 has fired for an admin on the public root
C7_Witness ==
  /\ lastOp.op = "guard" /\ isInitialized
  /\ lastOp.arg.path = "/" /\ ~lastOp.arg.requireAuth /\ ~lastOp.arg.requireAdmin
  /\ Len(nav) = 1 /\ nav[1].to = "/admin"

C10_SignOutIdempotent ==
  /\ [](lastOp.op = "signOutReturn"
          => (user = NULL /\ session = NULL /\ profile = NULL /\ ret = "void"))
  /\ [][(lastOp'.op = "signOutReturn"
           /\ user = NULL /\ session = NULL /\ profile = NULL) => store' = store]_vars
  /\ [][(lastOp'.op = "signOutReturn" /\ lastOp'.arg.prev = "signOutReturn")
          => store' = store]_vars

\* a second signOut has returned right after a first one
C10_Witness == lastOp.op = "signOutReturn" /\ lastOp.arg.prev = "signOutReturn"

\* --------------------------------------------- sign-in on the '/auth' page
\* One visit of the sign-in page by a signed-out visitor: the initial
\* no-session notification, signUp and signIn calls from the form, the signed-in
\* notification the provider delivers for a successful signIn (before or
\* after signIn returns), the profile lookup, and the effects.
SignInInit == Init /\ route = "/auth"

SignedInBySignIn == lastOp.op = "signInReturn" /\ lastOp.arg.outcome = "ok"

InitialNotify == ~notified /\ Notify(NULL)

FormSignIn ==
  /\ view = "children" /\ route = "/auth"
  /\ user = NULL /\ ~SignedInBySignIn
  /\ SignInCall

SignedInNotify(s) ==
  /\ user = NULL
  /\ signInCalls > 0 \/ SignedInBySignIn
  /\ Notify(s)

FormSignInReturn(o) ==
  /\ o # "ok" => (user = NULL /\ InFlight = 0)
  /\ SignInReturn(o)

\* the same form in sign-up mode
FormSignUp ==
  /\ view = "children" /\ route = "/auth"
  /\ user = NULL /\ ~SignedInBySignIn
  /\ SignUpCall

SignInNext ==
  \/ InitialNotify
  \/ FormSignIn
  \/ \E s \in Sessions : SignedInNotify(s)
  \/ \E o \in SignInOutcomes : FormSignInReturn(o)
  \/ FormSignUp
  \/ \E o \in RevokeOutcomes : SignUpCleaned(o)
  \/ \E o \in SignUpOutcomes : SignUpReturn(o)
  \/ \E i \in UserIds, o \in FetchOutcomes : FetchSettle(i, o)
  \/ AuthEffect
  \/ GuardEffect

\* React runs the effects scheduled by a commit
SignInSpec ==
  SignInInit /\ [][SignInNext]_vars /\ WF_vars(GuardEffect) /\ WF_vars(AuthEffect)

\* C8: signed out on '/auth' under a guard without flags, after a successful
\* signIn, the signed-in notification and a lookup that settles with role
\* 'artist', the guard navigates to '/dashboard' and never to '/admin'; with
\* role 'admin' it navigates to '/admin' and never to '/dashboard'. (The
\* profile is written once in such a run, and a dashboard is navigated to
\* only with the profile present, so "never" covers the whole run.)
C8_RoleRedirect ==
  /\ [][profile # NULL => profile' = profile]_vars
  /\ [](\A k \in 1..Len(nav) :
          /\ nav[k].to = "/admin" => (profile # NULL /\ profile.role = "admin")
          /\ nav[k].to = "/dashboard" => (profile # NULL /\ profile.role # "admin"))
  /\ []((profile # NULL /\ profile.role = "artist") => route # "/admin")
  /\ []((profile # NULL /\ profile.role = "admin") => route # "/dashboard")
  /\ (user # NULL /\ profile # NULL /\ profile.role = "artist" /\ route = "/auth")
       ~> (lastOp.op = "guard" /\ lastOp.arg.path = "/auth"
           /\ nav = << [to |-> "/dashboard", replace |-> TRUE, from |-> "none"] >>)
  /\ (user # NULL /\ profile # NULL /\ profile.role = "admin" /\ route = "/auth")
       ~> (lastOp.op = "guard" /\ lastOp.arg.path = "/auth"
           /\ nav = << [to |-> "/admin", replace |-> TRUE, from |-> "none"] >>)

\* the artist has been sent from '/auth' to '/dashboard'
C8_Witness ==
  /\ lastOp.op = "guard" /\ lastOp.arg.path = "/auth"
  /\ user # NULL /\ profile # NULL /\ profile.role = "artist"
  /\ Len(nav) = 1 /\ nav[1].to = "/dashboard"

\* ------------------------------------------------- properties of operations

\* a key the provider's naming convention covers: 'supabase.auth.' followed
\* by anything, or anything around 'sb-'
ProviderKey(k) ==
  \/ \E n \in 0..Len(k) :
       k = << "s", "u", "p", "a", "b", "a", "s", "e", ".", "a", "u", "t", "h", "." >>
             \o SubSeq(k, Len(k) - n + 1, Len(k))
  \/ \E i \in 1..Len(k) :
       i + 2 <= Len(k) /\ k[i] = "s" /\ k[i + 1] = "b" /\ k[i + 2] = "-"

NoProviderKeyStored ==
  \A k \in DOMAIN localStorage \cup DOMAIN sessionStorage : ~ProviderKey(k)

\* C11: signOut performs its effects in order: first the cleanup (the
\* provider's keys leave both storage areas at the call, nothing else has
\* happened yet, and the global sign-out is awaited), then user, session and
\* profile are set to null by signOut itself, in the step that resumes after
\* the global sign-out was attempted, whether or not a notification arrives,
\* and only then is the navigation to '/' triggered.
C11_SignOutOrder ==
  /\ [](lastOp.op = "signOut" => (NoProviderKeyStored /\ href = NoState))
  /\ [][lastOp'.op = "signOut"
         => (<<user, session, profile>>' = <<user, session, profile>>
             /\ signOutCalls' = signOutCalls + 1)]_vars
  /\ [][lastOp'.op = "signOutReturn"
         => (signOutCalls > 0 /\ NoProviderKeyStored
             /\ lastOp'.arg.revoke \in RevokeOutcomes)]_vars
  /\ [](lastOp.op = "signOutReturn"
         => (user = NULL /\ session = NULL /\ profile = NULL /\ href = "/"))
  /\ [](href = "/" => (lastOp.op = "signOutReturn" /\ session = NULL))

\* signOut has cleared a signed-in store and triggered the navigation with no
\* step, hence no notification, between its call and its return
C11_Witness ==
  /\ lastOp.op = "signOutReturn" /\ lastOp.arg.prev # "interleaved"
  /\ guardDirty /\ href = "/" /\ user = NULL

\* C12: the cleanup removes from localStorage and from sessionStorage exactly
\* the keys that start with 'supabase.auth.' or contain 'sb-'; every other
\* key stays, with its value.
C12_CleanupRemovesProviderKeys ==
  [][lastOp'.op \in {"signOut", "signUp"}
       => /\ DOMAIN localStorage' = { k \in DOMAIN localStorage : ~ProviderKey(k) }
          /\ DOMAIN sessionStorage' = { k \in DOMAIN sessionStorage : ~ProviderKey(k) }
          /\ \A k \in DOMAIN localStorage' : localStorage'[k] = localStorage[k]
          /\ \A k \in DOMAIN sessionStorage' : sessionStorage'[k] = sessionStorage[k]]_vars

\* a cleanup has removed the three provider keys and left the two others
C12_Witness ==
  /\ lastOp.op = "signOut"
  /\ Cardinality(lastOp.arg.cleanup.removed) = 3
  /\ Cardinality(DOMAIN localStorage) = 2
  /\ Cardinality(DOMAIN sessionStorage) = 2

\* C13: signIn writes none of user, session, profile, isInitialized: when the
\* provider fails it returns the provider's error, when the provider succeeds
\* it returns no error, and a session enters the store only through a
\* notification delivered by the subscription.
C13_SignInLeavesStore ==
  /\ [][lastOp'.op \in {"signIn", "signInReturn"} => store' = store]_vars
  /\ []((lastOp.op = "signInReturn" /\ lastOp.arg.outcome = "error")
          => ret = "ProviderError")
  /\ []((lastOp.op = "signInReturn" /\ lastOp.arg.outcome = "ok") => ret = "null")
  /\ [][(session' # session /\ session' # NULL) => lastOp'.op = "notify"]_vars

\* signIn has returned without error and the store still holds no user
C13_Witness ==
  /\ lastOp.op = "signInReturn" /\ lastOp.arg.outcome = "ok"
  /\ ret = "null" /\ user = NULL /\ session = NULL

\* C14: signUp returns no error and shows a warning of its own, not a
\* destructive one, when the provider's error says the confirmation e-mail
\* could not be sent; it returns the error and shows the destructive failure
\* toast for any other provider error; it returns no error and shows the
\* success toast when the provider reports none.
C14_SignUpOutcomes ==
  lastOp.op = "signUpReturn" =>
    LET o == lastOp.arg.outcome
    IN /\ o = "emailError"
            => /\ ret = "null"
               /\ toasts.title = "Account created with email issue"
               /\ toasts.variant # "destructive"
       /\ o = "error"
            => /\ ret = "ProviderError"
               /\ toasts = [title |-> "Sign up failed", variant |-> "destructive"]
       /\ o = "ok"
            => /\ ret = "null"
               /\ toasts.title = "Account created!"
               /\ toasts.variant # "destructive"

\* signUp has returned no error after the confirmation e-mail error
C14_Witness ==
  /\ lastOp.op = "signUpReturn" /\ lastOp.arg.outcome = "emailError"
  /\ ret = "null" /\ toasts.title = "Account created with email issue"

\* C15, as stated: a signIn or signUp the provider rejects leaves user,
\* session, profile and the stored provider keys as they were, and causes no
\* sign-out of the current session.
C15_RejectedLeavesLocalState ==
  /\ [][lastOp'.op \in {"signIn", "signInReturn", "signUp", "signUpCleaned", "signUpReturn"}
         => <<user, session, profile>>' = <<user, session, profile>>]_vars
  /\ [][lastOp'.op \in {"signIn", "signInReturn"} => storage' = storage]_vars
  /\ []((/\ lastOp.op = "signUpReturn" /\ lastOp.arg.outcome = "error"
          /\ lastOp.arg.cleanup.traced)
         => (lastOp.arg.cleanup.removed = {} /\ lastOp.arg.cleanup.signedOut = NULL))

\* C15, amended: neither a rejected signIn nor a rejected signUp writes user,
\* session or profile; a rejected signIn also leaves both storage areas as
\* they were and asks for no sign-out; a rejected signUp has, before the
\* provider was asked, removed the provider's keys from both storage areas
\* and asked for a global sign-out of whatever session was current.
C15_RejectedSignUpHasCleaned ==
  /\ [][lastOp'.op \in {"signIn", "signInReturn", "signUp", "signUpCleaned", "signUpReturn"}
         => <<user, session, profile>>' = <<user, session, profile>>]_vars
  /\ [][lastOp'.op \in {"signIn", "signInReturn"}
         => (storage' = storage /\ signUpCleaning' = signUpCleaning
             /\ signOutCalls' = signOutCalls)]_vars
  /\ [][lastOp'.op = "signUp"
         => (signUpCleaning' = signUpCleaning + 1 /\ NoProviderKeyStored')]_vars
  /\ [][lastOp'.op \in {"signUpCleaned", "signUpReturn"} => storage' = storage]_vars
  /\ []((/\ lastOp.op = "signUpReturn" /\ lastOp.arg.outcome = "error"
          /\ lastOp.arg.cleanup.traced)
         => (NoProviderKeyStored /\ ret = "ProviderError"
             /\ \A k \in lastOp.arg.cleanup.removed : ProviderKey(k)))

\* a signUp called by a signed-in session has been rejected after its cleanup
\* removed stored keys and asked for the global sign-out
C15_Witness ==
  /\ lastOp.op = "signUpReturn" /\ lastOp.arg.outcome = "error"
  /\ lastOp.arg.cleanup.traced
  /\ lastOp.arg.cleanup.removed # {}
  /\ lastOp.arg.cleanup.signedOut # NULL

\* C16: signIn, signUp and signOut never let an exception reach their caller:
\* signIn and signUp return a provider error or a caught exception as their
\* error value, signOut returns nothing whatever happened.
C16_NoThrowToCaller ==
  /\ lastOp.op \in {"signInReturn", "signUpReturn"}
       => /\ ret \in {"null", "ProviderError", "Thrown"}
          /\ lastOp.arg.outcome = "throw" => ret = "Thrown"
          /\ lastOp.arg.outcome = "error" => ret = "ProviderError"
  /\ lastOp.op = "signOutReturn" => ret = "void"
  /\ ret # "Rejected"

\* signIn has returned the exception its provider call threw
C16_Witness ==
  lastOp.op = "signInReturn" /\ lastOp.arg.outcome = "throw" /\ ret = "Thrown"

\* C17: whenever signIn or signUp returns an error value, for a provider
\* error or for a thrown exception, a toast has been shown before it returns.
C17_FailureHasToast ==
  (lastOp.op \in {"signInReturn", "signUpReturn"} /\ ret # "null")
    => toasts # NoToast

\* C18: when the global sign-out of the cleanup fails or throws, the cleanup
\* still completes: signOut still sets user, session and profile to null and
\* triggers the navigation to '/', the stored provider keys are gone, and
\* signUp still goes on to ask the provider.
C18_RevocationFailureSwallowed ==
  /\ []((lastOp.op = "signOutReturn" /\ lastOp.arg.revoke \in {"error", "throw"})
          => (/\ user = NULL /\ session = NULL /\ profile = NULL
              /\ href = "/" /\ ret = "void" /\ NoProviderKeyStored))
  /\ [][signUpCleaning' < signUpCleaning
         => (signUpCalls' = signUpCalls + 1 /\ lastOp'.op = "signUpCleaned")]_vars

\* signOut has cleared a signed-in store although the global sign-out threw
C18_Witness ==
  /\ lastOp.op = "signOutReturn" /\ lastOp.arg.revoke = "throw"
  /\ guardDirty /\ href = "/"

\* ------------------------------------- AuthProvider: the earlier revision
\* (no isInitialized; its mount effect subscribes, then queries getSession;
\* the callback defers the profile lookup with setTimeout)

\* variant: the query is issued before the subscription is registered
EarlierMountOrderQueryFirst == << "getSession", "subscribe" >>

\* the statements of the mount effect, in the order they are written
EarlierMountOrder == << "subscribe", "getSession" >>

EarlierMounted == mountPc = Len(EarlierMountOrder)

Scheduled == timers["u1"] + timers["u2"]

\* useState initial values of this revision; the mount effect has not run
EarlierInit ==
  /\ session = NULL /\ user = NULL /\ profile = NULL
  /\ loading = TRUE /\ isInitialized = FALSE
  /\ subInit = FALSE
  /\ fetches = [i \in UserIds |-> 0]
  /\ signInCalls = 0 /\ signUpCleaning = 0 /\ signUpCalls = 0 /\ signOutCalls = 0
  /\ localStorage = StoredItems /\ sessionStorage = StoredItems
  /\ href = NoState
  /\ route = "/" /\ requireAuth = FALSE /\ requireAdmin = FALSE
  /\ guardDirty = FALSE
  /\ nav = <<>>
  /\ view = "children"
  /\ toasts = NoToast
  /\ ret = NoState
  /\ lastOp = Op("render", NoArg)
  /\ notified = FALSE
  /\ subscribed = FALSE /\ getSession = "none"
  /\ timers = [i \in UserIds |-> 0]
  /\ mountPc = 0
  /\ DashboardUnmounted

\* what this revision never touches
EarlierFrame ==
  /\ Quiet
  /\ UNCHANGED <<isInitialized, subInit, calls, guard, guardDirty, view>>
  /\ UNCHANGED storage
  /\ UNCHANGED dashboard

\* the mount effect runs its next statement
EarlierMountStep ==
  /\ mountPc < Len(EarlierMountOrder)
  /\ mountPc' = mountPc + 1
  /\ LET stmt == EarlierMountOrder[mountPc + 1]
     IN /\ subscribed' = (subscribed \/ stmt = "subscribe")
        /\ getSession' = IF stmt = "getSession" THEN "pending" ELSE getSession
        /\ lastOp' = Op("mount", [statement |-> stmt])
  /\ EarlierFrame
  /\ UNCHANGED <<session, user, profile, loading, fetches, timers, notified>>

\* what fetching the profile stores for each outcome; its catch block only logs
EarlierProfileAfterFetch(u, o, prof) ==
  IF o.kind = "row" THEN ProfileRow(u, o.role)
  ELSE IF o.kind = "error" THEN FallbackProfile(u)
  ELSE prof

\* the provider fires a session-change event with session s (NULL: none); it
\* reaches the callback if one is registered; no event fires while the effect
\* is running
EarlierEmit(s) ==
  /\ mountPc \in {0, Len(EarlierMountOrder)}
  /\ IF subscribed
     THEN /\ s # NULL => Scheduled + InFlight < MaxInFlight
          /\ session' = s
          /\ user' = UserOfSession(s)
          /\ IF user' # NULL
             THEN /\ timers' = [timers EXCEPT ![user'.id] = @ + 1]
                  /\ UNCHANGED profile
             ELSE /\ profile' = NULL
                  /\ UNCHANGED timers
          /\ loading' = FALSE
          /\ notified' = TRUE
          /\ lastOp' = Op("notify", s)
     ELSE /\ UNCHANGED <<session, user, profile, loading, timers, notified>>
          /\ lastOp' = Op("missed", s)
  /\ EarlierFrame
  /\ UNCHANGED <<fetches, subscribed, getSession, mountPc>>

\* a setTimeout callback runs and starts the profile query
EarlierTimer(i) ==
  /\ EarlierMounted
  /\ timers[i] > 0
  /\ timers' = [timers EXCEPT ![i] = @ - 1]
  /\ fetches' = [fetches EXCEPT ![i] = @ + 1]
  /\ lastOp' = Op("timer", [u |-> UserById(i)])
  /\ EarlierFrame
  /\ UNCHANGED <<session, user, profile, loading, notified, subscribed,
                 getSession, mountPc>>

\* the profile query of a setTimeout callback settles with o
EarlierSettle(i, o) ==
  /\ EarlierMounted
  /\ fetches[i] > 0
  /\ fetches' = [fetches EXCEPT ![i] = @ - 1]
  /\ profile' = EarlierProfileAfterFetch(UserById(i), o, profile)
  /\ lastOp' = Op("settle", [u |-> UserById(i), outcome |-> o])
  /\ EarlierFrame
  /\ UNCHANGED <<session, user, loading, notified, timers, subscribed,
                 getSession, mountPc>>

\* getSession().then: the query resolves with session s
EarlierGetSessionDone(s) ==
  /\ EarlierMounted
  /\ getSession = "pending"
  /\ getSession' = "done"
  /\ session' = s
  /\ user' = UserOfSession(s)
  /\ loading' = IF s = NULL THEN FALSE ELSE loading
  /\ lastOp' = Op("getSession", s)
  /\ EarlierFrame
  /\ UNCHANGED <<profile, fetches, notified, timers, subscribed, mountPc>>

EarlierNext ==
  \/ EarlierMountStep
  \/ \E s \in Sessions \cup {NULL} : EarlierEmit(s)
  \/ \E i \in UserIds : EarlierTimer(i)
  \/ \E i \in UserIds, o \in FetchOutcomes : EarlierSettle(i, o)
  \/ \E s \in Sessions \cup {NULL} : EarlierGetSessionDone(s)

EarlierSpec == EarlierInit /\ [][EarlierNext]_vars

\* C19: the mount effect registers the subscription before it issues
\* getSession: whenever the query has been issued a callback is registered,
\* so no event the provider fires from then on is missed, and an event fired
\* while the query is pending reaches the store.
C19_SubscribeBeforeGetSession ==
  /\ [](getSession # "none" => subscribed)
  /\ [][lastOp'.op = "missed" => getSession = "none"]_vars
  /\ [](lastOp.op = "notify" => session = lastOp.arg)

\* an event fired while getSession was pending has been stored
C19_Witness ==
  /\ lastOp.op = "notify" /\ getSession = "pending"
  /\ session # NULL /\ session = lastOp.arg

\* C20: the profile lookup a notification triggers is not started while the
\* callback runs: the step that handles the notification starts no lookup.
C20_LookupDeferred ==
  [][lastOp'.op = "notify" => fetches' = fetches]_vars

\* ------------------------------------------- properties of guard and store

\* C21: a guard with requireAuth does not render its children while user is
\* null, and a guard with requireAdmin does not render them while isAdmin is
\* false.
C21_NoChildrenWhenRedirecting ==
  /\ (requireAuth /\ user = NULL) => view # "children"
  /\ (requireAdmin /\ ~IsAdminOf(profile)) => view # "children"

\* C22: on a view guarded with requireAuth and requireAdmin, the guard makes
\* no navigate call while the signed-in user's profile lookup is pending
\* (isInitialized, loading, profile null).
C22_NoRedirectWhilePending ==
  (/\ lastOp.op = "guard"
   /\ lastOp.arg.requireAuth /\ lastOp.arg.requireAdmin
   /\ isInitialized /\ user # NULL /\ profile = NULL /\ loading
   /\ fetches[user.id] > 0)
  => nav = <<>>

\* C23: user = null implies profile = null.
C23_NoProfileWithoutUser == user = NULL => profile = NULL

\* C24: when user and profile are non-null and no lookup is in flight, the
\* profile is the user's.
C24_ProfileOfUser ==
  (user # NULL /\ profile # NULL /\ InFlight = 0) => profile.id = user.id

\* C25: while a lookup that was in flight stays in flight, loading stays
\* true (a step that leaves a lookup unsettled does not reset it), and the
\* guard keeps showing the placeholder.
C25_LoadingStaysWhileHung ==
  /\ [][(loading /\ InFlight >= 1 /\ InFlight' >= 1) => loading']_vars
  /\ [](loading => view = "placeholder")

\* C26: loading is true whenever a profile lookup is in flight.
C26_LoadingWhileInFlight == InFlight > 0 => loading

\* C27: for a settled store (isInitialized, not loading) and a start on '/',
\* '/auth', '/dashboard' or '/admin', each under its page's guard, the guard
\* navigates at most twice in a row and then stays: the chain of redirects
\* ends, and no cycle exists.
C27_RedirectsEnd ==
  (isInitialized /\ ~loading) =>
    \A p \in {"/", "/auth", "/dashboard", "/admin"} :
      RedirectHops(TRUE, user, profile, p, ChainFuel) <= 2

\* a non-admin with a settled store, for whom '/admin' leads to '/' and on to
\* '/dashboard', has just been sent from '/' to '/dashboard'
C27_Witness ==
  /\ lastOp.op = "guard" /\ lastOp.arg.path = "/"
  /\ isInitialized /\ ~loading
  /\ nav = << [to |-> "/dashboard", replace |-> TRUE, from |-> "none"] >>
  /\ RedirectHops(TRUE, user, profile, "/admin", ChainFuel) = 2

\* C28: the guard treats a signed-in user with role 'inactive' as it treats
\* an artist: sent to '/' from a requireAdmin view, sent to '/dashboard' from
\* '/' and '/auth', and otherwise left where it is, the children being
\* rendered once loading is over.
C28_InactiveLikeArtist ==
  (/\ lastOp.op = "guard" /\ isInitialized
   /\ user # NULL /\ profile # NULL /\ profile.role = "inactive")
  => LET a == lastOp.arg
     IN /\ a.requireAdmin
             => nav = << [to |-> "/", replace |-> TRUE, from |-> "none"] >>
        /\ (~a.requireAdmin /\ a.path \in {"/", "/auth"})
             => nav = << [to |-> "/dashboard", replace |-> TRUE, from |-> "none"] >>
        /\ (~a.requireAdmin /\ a.path \notin {"/", "/auth"})
             => (nav = <<>> /\ (~loading => view = "children"))

\* a deactivated user has been sent from the admin view to '/'
C28_Witness ==
  /\ lastOp.op = "guard" /\ isInitialized
  /\ user # NULL /\ profile # NULL /\ profile.role = "inactive"
  /\ lastOp.arg.requireAdmin /\ lastOp.arg.path = "/admin"
  /\ nav = << [to |-> "/", replace |-> TRUE, from |-> "none"] >>

\* ------------------------------------------------------- AdminDashboard
\* (the page under <AuthGuard requireAuth requireAdmin>, with the admin u1
\* signed in)

\* the id supabase.auth.getUser() returns to moveToRecycleBin
AdminId == "u1"

SearchTerms == { <<>>, << "A" >> }

StatusFilters == TrackStatuses \cup {"all"}

\* useState initial values of AdminDashboard, its mount effect having called
\* fetchData; the table holds any two rows
AdminInit ==
  /\ user = UserById(AdminId)
  /\ session = [user |-> user]
  /\ profile = ProfileRow(user, "admin")
  /\ loading = FALSE /\ isInitialized = TRUE
  /\ subInit = TRUE
  /\ fetches = [i \in UserIds |-> 0]
  /\ signInCalls = 0 /\ signUpCleaning = 0 /\ signUpCalls = 0 /\ signOutCalls = 0
  /\ localStorage = StoredItems /\ sessionStorage = StoredItems
  /\ href = NoState
  /\ route = "/admin" /\ requireAuth = TRUE /\ requireAdmin = TRUE
  /\ guardDirty = FALSE
  /\ nav = <<>>
  /\ view = "children"
  /\ toasts = NoToast
  /\ ret = NoState
  /\ lastOp = Op("mount", NoArg)
  /\ notified = TRUE
  /\ subscribed = TRUE /\ getSession = "none"
  /\ timers = [i \in UserIds |-> 0]
  /\ mountPc = 1
  /\ db \in [TrackIds -> { TrackRow(st, d[1], d[2]) :
                              st \in {"pending"},
                              d \in { <<NULL, NULL>>, <<At("now"), By(AdminId)>> } }]
  /\ tracks = {} /\ deletedTracks = {} /\ selectedTracks = {}
  /\ statusFilter = "all" /\ searchTerm = <<>>
  /\ refreshing = {"tracks", "deleted"}

\* what the dashboard never touches
AdminFrame ==
  /\ nav' = <<>> /\ ret' = NoState /\ href' = NoState
  /\ UNCHANGED <<store, subInit, fetches, calls, guard, guardDirty, view,
                 notified, lastOp>>
  /\ UNCHANGED storage
  /\ UNCHANGED mounting

\* .is('deleted_at', null): the rows fetchTracks is sent
ActiveRows(table) ==
  { [id |-> i, status |-> table[i].status] :
      i \in { x \in TrackIds : table[x].exists /\ table[x].deleted_at = NULL } }

\* .not('deleted_at', 'is', null): the rows fetchDeletedTracks is sent
DeletedRows(table) ==
  { i \in TrackIds : table[i].exists /\ table[i].deleted_at # NULL }

LoadedIds == { r.id : r \in tracks }

\* filteredTracks
FilteredTracks(list, term, filter) ==
  { r \in list :
      /\ \/ Includes(ToLowerCase(TrackInfo[r.id].title), ToLowerCase(term))
         \/ Includes(ToLowerCase(TrackInfo[r.id].genre), ToLowerCase(term))
         \/ Includes(ToLowerCase(IF TrackInfo[r.id].artist = NULL THEN <<>>
                                  ELSE TrackInfo[r.id].artist),
                     ToLowerCase(term))
      /\ (filter = "all" \/ r.status = filter) }

FilteredIds == { r.id : r \in FilteredTracks(tracks, searchTerm, statusFilter) }

\* the realtime channel on the tracks table calls fetchTracks on any change
ChannelRefresh(before, after) ==
  IF after # before THEN {"tracks"} ELSE {}

\* fetchTracks after its await
FetchTracksDone(o) ==
  /\ "tracks" \in refreshing
  /\ refreshing' = refreshing \ {"tracks"}
  /\ IF o = "ok"
     THEN tracks' = ActiveRows(db) /\ toasts' = NoToast
     ELSE UNCHANGED tracks /\ toasts' = Toast("Error", "destructive")
  /\ UNCHANGED <<db, deletedTracks, selectedTracks, statusFilter, searchTerm>>
  /\ AdminFrame

\* fetchDeletedTracks after its await
FetchDeletedTracksDone(o) ==
  /\ "deleted" \in refreshing
  /\ refreshing' = refreshing \ {"deleted"}
  /\ IF o = "ok"
     THEN deletedTracks' = DeletedRows(db) /\ toasts' = NoToast
     ELSE UNCHANGED deletedTracks /\ toasts' = Toast("Error", "destructive")
  /\ UNCHANGED <<db, tracks, selectedTracks, statusFilter, searchTerm>>
  /\ AdminFrame

\* moveToRecycleBin, from the button of a row of the active list, up to
\* fetchData; outcomes: no user, update error, update done
MoveToRecycleBin(t, o) ==
  /\ t \in FilteredIds
  /\ IF o = "ok"
     THEN /\ db' = IF db[t].exists
                    THEN [db EXCEPT ![t].deleted_at = At("now"), ![t].deleted_by = By(AdminId)]
                    ELSE db
          /\ refreshing' = refreshing \cup {"tracks", "deleted"}
          /\ toasts' = Toast("Track Moved to Recycle Bin", "default")
     ELSE /\ UNCHANGED <<db, refreshing>>
          /\ toasts' = Toast("Move Failed", "destructive")
  /\ UNCHANGED <<tracks, deletedTracks, selectedTracks, statusFilter, searchTerm>>
  /\ AdminFrame

\* restoreTrack, from the button of a row of the recycle bin, up to fetchData
RestoreTrack(t, o) ==
  /\ t \in deletedTracks
  /\ IF o = "ok"
     THEN /\ db' = IF db[t].exists
                    THEN [db EXCEPT ![t].deleted_at = NULL, ![t].deleted_by = NULL]
                    ELSE db
          /\ refreshing' = refreshing \cup {"tracks", "deleted"}
          /\ toasts' = Toast("Track Restored", "default")
     ELSE /\ UNCHANGED <<db, refreshing>>
          /\ toasts' = Toast("Restore Failed", "destructive")
  /\ UNCHANGED <<tracks, deletedTracks, selectedTracks, statusFilter, searchTerm>>
  /\ AdminFrame

\* permanentlyDeleteTrack(t) up to fetchDeletedTracks
PermanentlyDeleteTrack(t, o) ==
  /\ IF t \notin deletedTracks
     THEN /\ UNCHANGED <<db, refreshing>>
          /\ toasts' = NoToast
     ELSE IF o = "ok"
     THEN /\ db' = [db EXCEPT ![t] = NoRow]
          /\ refreshing' = refreshing \cup {"deleted"} \cup ChannelRefresh(db, db')
          /\ toasts' = Toast("Track Permanently Deleted", "default")
     ELSE /\ UNCHANGED <<db, refreshing>>
          /\ toasts' = Toast("Delete Failed", "destructive")
  /\ UNCHANGED <<tracks, deletedTracks, selectedTracks, statusFilter, searchTerm>>
  /\ AdminFrame

\* .update({ status }).in('id', ids): the table after the update
StatusUpdated(table, ids, st) ==
  [i \in TrackIds |-> IF i \in ids /\ table[i].exists
                       THEN [table[i] EXCEPT !.status = st] ELSE table[i]]

\* bulkUpdateStatus, from the buttons shown while tracks are selected
BulkUpdateStatus(st, o) ==
  /\ selectedTracks # {}
  /\ IF selectedTracks = {}
     THEN /\ UNCHANGED <<db, selectedTracks, refreshing>>
          /\ toasts' = Toast("No Tracks Selected", "destructive")
     ELSE IF o = "ok"
     THEN /\ db' = StatusUpdated(db, selectedTracks, st)
          /\ selectedTracks' = {}
          /\ refreshing' = refreshing \cup ChannelRefresh(db, db')
          /\ toasts' = Toast("Bulk Update Complete", "default")
     ELSE /\ UNCHANGED <<db, selectedTracks, refreshing>>
          /\ toasts' = Toast("Bulk Update Failed", "destructive")
  /\ UNCHANGED <<tracks, deletedTracks, statusFilter, searchTerm>>
  /\ AdminFrame

\* toggleTrackSelection, from the checkbox of a visible row
ToggleTrackSelection(t) ==
  /\ t \in FilteredIds
  /\ selectedTracks' = IF t \in selectedTracks THEN selectedTracks \ {t}
                       ELSE selectedTracks \cup {t}
  /\ toasts' = NoToast
  /\ UNCHANGED <<db, tracks, deletedTracks, statusFilter, searchTerm, refreshing>>
  /\ AdminFrame

\* toggleAllTracks
ToggleAllTracks ==
  /\ selectedTracks' = IF Cardinality(selectedTracks) = Cardinality(FilteredIds)
                       THEN {} ELSE FilteredIds
  /\ selectedTracks' # selectedTracks
  /\ toasts' = NoToast
  /\ UNCHANGED <<db, tracks, deletedTracks, statusFilter, searchTerm, refreshing>>
  /\ AdminFrame

\* the status filter is changed
SetStatusFilter(f) ==
  /\ f # statusFilter
  /\ statusFilter' = f
  /\ toasts' = NoToast
  /\ UNCHANGED <<db, tracks, deletedTracks, selectedTracks, searchTerm, refreshing>>
  /\ AdminFrame

\* the search box is edited
SetSearchTerm(q) ==
  /\ q # searchTerm
  /\ searchTerm' = q
  /\ toasts' = NoToast
  /\ UNCHANGED <<db, tracks, deletedTracks, selectedTracks, statusFilter, refreshing>>
  /\ AdminFrame

\* another administrator's dashboard restores a track; the change reaches
\* this dashboard over the realtime channel
ChannelRestore(t) ==
  /\ db[t].exists /\ db[t].deleted_at # NULL
  /\ db' = [db EXCEPT ![t].deleted_at = NULL, ![t].deleted_by = NULL]
  /\ refreshing' = refreshing \cup ChannelRefresh(db, db')
  /\ toasts' = NoToast
  /\ UNCHANGED <<tracks, deletedTracks, selectedTracks, statusFilter, searchTerm>>
  /\ AdminFrame

QueryOutcomes == {"ok", "error"}

\* the bulk button pressed: "Approve All"
BulkStatuses == {"approved"}

AdminNext ==
  \/ \E o \in QueryOutcomes : FetchTracksDone(o)
  \/ \E o \in QueryOutcomes : FetchDeletedTracksDone(o)
  \/ \E t \in TrackIds, o \in QueryOutcomes \cup {"noUser"} : MoveToRecycleBin(t, o)
  \/ \E t \in TrackIds, o \in QueryOutcomes : RestoreTrack(t, o)
  \/ \E t \in TrackIds, o \in QueryOutcomes : PermanentlyDeleteTrack(t, o)
  \/ \E st \in BulkStatuses, o \in QueryOutcomes : BulkUpdateStatus(st, o)
  \/ \E t \in TrackIds : ToggleTrackSelection(t)
  \/ ToggleAllTracks
  \/ \E f \in StatusFilters : SetStatusFilter(f)
  \/ \E q \in SearchTerms : SetSearchTerm(q)
  \/ \E t \in TrackIds : ChannelRestore(t)

AdminSpec == AdminInit /\ [][AdminNext]_vars

\* C29: moveToRecycleBin and restoreTrack change neither status nor
\* existence of a row, and restoreTrack leaves deleted_at and deleted_by
\* null, so that the two in a row are a round trip, after which a refreshed
\* active list shows the track again; once the lists have been refreshed, no
\* track is in the active list and in the recycle-bin list at the same time;
\* and a row is only ever deleted by permanentlyDeleteTrack for a track in
\* the loaded recycle-bin list.
C29_RecycleBin ==
  /\ [][toasts'.title \in {"Track Moved to Recycle Bin", "Track Restored"}
         => \A t \in TrackIds : /\ db'[t].status = db[t].status
                                /\ db'[t].exists = db[t].exists]_vars
  /\ [][toasts'.title = "Track Restored"
         => \A t \in TrackIds :
              db'[t] # db[t] => (db'[t].deleted_at = NULL /\ db'[t].deleted_by = NULL)]_vars
  /\ [][(tracks' # tracks)
         => \A t \in TrackIds :
              (db[t].exists /\ db[t].deleted_at = NULL) <=> t \in { r.id : r \in tracks' }]_vars
  /\ [](refreshing = {} => LoadedIds \cap deletedTracks = {})
  /\ [][\A t \in TrackIds :
          (db[t].exists /\ ~db'[t].exists)
            => (toasts'.title = "Track Permanently Deleted" /\ t \in deletedTracks)]_vars

\* C30: selectedTracks holds only ids of tracks visible under the filters,
\* so a bulk update changes the status of visible tracks only.
C30_SelectionVisible ==
  /\ [](selectedTracks \subseteq FilteredIds)
  /\ [][toasts'.title = "Bulk Update Complete"
         => \A t \in TrackIds : db'[t].status # db[t].status => t \in FilteredIds]_vars

====
